---- MODULE Spec2Model ----
(***************************************************************************)
(* A model of ceph_exporter's scrape-cycle orchestration:                  *)
(*   - CephExporter (src/exporter.go): Describe, Collect, setCephVersion,  *)
(*     getCollectors, the package-level CephVersion slot and versionLock,  *)
(*     and the per-exporter mutex mu;                                      *)
(*   - emfileAwareTcpListener.Accept (src/exporter.go);                    *)
(*   - BucketUsageCollector.collect / Collect (src/unnamed/part_001), the  *)
(*     goroutine-per-bucket fan-out.                                       *)
(* Each part has its own specification (Spec, SpecListener, SpecFanOut);   *)
(* the variables of the other parts stay at their initial values.          *)
(***************************************************************************)
EXTENDS Naturals, Integers, Sequences, FiniteSets

VARIABLES
    \* ---- exporter.go: package-level state --------------------------------
    CephVersion,    \* the shared parsed version (NoVersion = nil pointer)
    versionLock,    \* holder of versionLock (a goroutine), or 0
    \* ---- exporter.go: CephExporter fields --------------------------------
    mu,             \* mu[e]: holder of exporter e's mutex, or 0
    rgwMode,        \* rgwMode[e]: the gateway-mode setting of exporter e
    \* ---- one Describe/Collect invocation per goroutine --------------------
    pc,             \* position of each goroutine in Describe/Collect
    kind,           \* "Collect" or "Describe"
    self,           \* the exporter the method is invoked on (receiver c)
    refreshErr,     \* the err returned by setCephVersion ("nil" when none)
    parsedVersion,  \* setCephVersion's local parsedVersion
    list,           \* the slice returned by getCollectors() for the loop
    idx,            \* loop position in that slice (1-based)
    called,         \* sub-collectors called so far by this invocation
    seen,           \* values CephVersion held while this invocation was in its loop
    wrote,          \* whether this invocation's sub-collectors sent anything on ch
    acquired,       \* whether this invocation locked c.mu
    stored,         \* whether this invocation assigned CephVersion
    queries,        \* number of MonCommand calls this invocation issued
    log,            \* messages this invocation logged
    result,         \* how the invocation ended
    \* ---- emfileAwareTcpListener ------------------------------------------
    acceptIn,       \* what AcceptTCP returned to the latest Accept
    acceptRet,      \* what the latest Accept returned: [c, err]
    conns,          \* connections handed to the HTTP server so far
    exited,         \* the process was terminated by logger.Fatal
    \* ---- BucketUsageCollector.collect -------------------------------------
    cpc,            \* position of the goroutine running collect
    stats,          \* stats.Buckets: the enumerated buckets
    next,           \* position of the range loop over stats.Buckets
    buf,            \* collect's buf, captured and assigned by every task
    err,            \* collect's err, captured and assigned by every task
    latestErr,      \* collect's latestErr, assigned by failing tasks
    wg,             \* the WaitGroup counter
    tpc,            \* position of each bucket's goroutine
    lookup,         \* what showBucketUsage returned to each task
    usage,          \* each task's decoded usage (its Summary list)
    pos,            \* each task's next send, counted over its loops (4 per pair)
    sent,           \* the samples each task sent on ch, in order
    ret,            \* the error collect returned
    logged,         \* Collect logged "error collecting bucket usage metrics"
    listing,        \* how the enumerate step ended: "none", "ok", "fail", "garbage"
    lastWriter      \* the task whose assignment to latestErr was the latest (0: none)

exporterVars == <<CephVersion, versionLock, mu, rgwMode, pc, kind, self,
                  refreshErr, parsedVersion, list, idx, called, seen, wrote,
                  acquired, stored, queries, log, result>>
listenerVars == <<acceptIn, acceptRet, conns, exited>>
fanVars == <<cpc, stats, next, buf, err, latestErr, wg, tpc, lookup, usage, pos,
             sent, ret, logged, listing, lastWriter>>
vars == <<exporterVars, listenerVars, fanVars>>

(***************************************************************************)
(* Bounds                                                                  *)
(***************************************************************************)
NumProcs == 2          \* concurrent scrape goroutines
NumExporters == 2      \* CephExporter instances registered in the process
MaxAccepts == 4        \* connections the listener model accepts
NumPeers == 2          \* distinct remote peers that connect
NumBuckets == 3        \* buckets the gateway can list

Procs == 1..NumProcs
Exporters == 1..NumExporters
Peers == 1..NumPeers

(***************************************************************************)
(* Version query: payloads, decoding and parsing                           *)
(***************************************************************************)
NoVersion == [Major |-> -1, Minor |-> -1, Patch |-> -1]

\* A version string, as ParseCephVersion sees it: "<prefix> <nums> ...".
VersionStrings ==
    { [prefix |-> "ceph version", nums |-> <<14, 2, 1>>],
      [prefix |-> "ceph version", nums |-> <<16, 2, 5>>],
      [prefix |-> "ceph version", nums |-> <<14, 2>>],
      [prefix |-> "", nums |-> <<>>] }

EmptyString == [prefix |-> "", nums |-> <<>>]

\* What conn.MonCommand returns: (buf, _, err).
\*   sendFailed: err # nil; wellFormed: buf is valid JSON;
\*   hasVersion: the JSON object has a "version" member.
Responses ==
    { [sendFailed |-> TRUE, wellFormed |-> FALSE, hasVersion |-> FALSE, version |-> EmptyString],
      [sendFailed |-> FALSE, wellFormed |-> FALSE, hasVersion |-> FALSE, version |-> EmptyString],
      [sendFailed |-> FALSE, wellFormed |-> TRUE, hasVersion |-> FALSE, version |-> EmptyString] }
    \cup { [sendFailed |-> FALSE, wellFormed |-> TRUE, hasVersion |-> TRUE, version |-> s] :
             s \in VersionStrings }

\* json.Unmarshal(buf, cephVersion): the Version field, "" when the member is absent.
UnmarshalVersion(r) ==
    IF ~r.wellFormed THEN [err |-> "decode", Version |-> EmptyString]
    ELSE IF r.hasVersion THEN [err |-> "nil", Version |-> r.version]
    ELSE [err |-> "nil", Version |-> EmptyString]

\* version.ParseCephVersion: "ceph version X.Y.Z ..." gives (X, Y, Z).
ParseCephVersion(s) ==
    IF s.prefix = "ceph version" /\ Len(s.nums) = 3
    THEN [err |-> "nil", v |-> [Major |-> s.nums[1], Minor |-> s.nums[2], Patch |-> s.nums[3]]]
    ELSE [err |-> "parse", v |-> NoVersion]

\* setCephVersion up to the point where it takes versionLock: the error it
\* returns ("nil" when it goes on to store) and the parsedVersion it computed.
setCephVersionResult(r) ==
    IF r.sendFailed THEN [err |-> "send", v |-> NoVersion]
    ELSE IF UnmarshalVersion(r).err # "nil" THEN [err |-> "decode", v |-> NoVersion]
    ELSE ParseCephVersion(UnmarshalVersion(r).Version)

(***************************************************************************)
(* getCollectors                                                           *)
(***************************************************************************)
RGWModeDisabled == 0
RGWModeForeground == 1
RGWModeBackground == 2

\* The RGW_MODE values tried: the three recognised ones and an unrecognised one.
Modes == {RGWModeDisabled, RGWModeForeground, RGWModeBackground, 99}

Sub(n, bg) == [name |-> n, background |-> bg]

standardCollectors ==
    << Sub("ClusterUsage", FALSE), Sub("PoolUsage", FALSE), Sub("PoolInfo", FALSE),
       Sub("ClusterHealth", FALSE), Sub("Monitor", FALSE), Sub("OSD", FALSE) >>

\* getCollectors with the background flag of the two gateway cases exchanged.
getCollectorsFlagsSwapped(mode) ==
    IF mode = RGWModeForeground THEN Append(standardCollectors, Sub("RGW", TRUE))
    ELSE IF mode = RGWModeBackground THEN Append(standardCollectors, Sub("RGW", FALSE))
    ELSE standardCollectors

getCollectors(mode) ==
    IF mode = RGWModeForeground THEN Append(standardCollectors, Sub("RGW", FALSE))
    ELSE IF mode = RGWModeBackground THEN Append(standardCollectors, Sub("RGW", TRUE))
    ELSE standardCollectors

WarnInvalidMode == "RGW collector disabled due to invalid mode"
ErrSetVersion == "failed to set ceph version"

\* What getCollectors logs for a mode (the default branch of its switch).
getCollectorsLog(mode) ==
    IF mode \in {RGWModeForeground, RGWModeBackground, RGWModeDisabled}
    THEN {} ELSE {WarnInvalidMode}

(***************************************************************************)
(* Init                                                                    *)
(***************************************************************************)
ExporterInit ==
    /\ CephVersion = NoVersion
    /\ versionLock = 0
    /\ mu = [e \in Exporters |-> 0]
    \* main() passes the one RGW_MODE flag to every exporter it registers
    /\ rgwMode \in {[e \in Exporters |-> m] : m \in Modes}
    /\ pc = [p \in Procs |-> "idle"]
    /\ kind = [p \in Procs |-> "Collect"]
    /\ self = [p \in Procs |-> 1]
    /\ refreshErr = [p \in Procs |-> "nil"]
    /\ parsedVersion = [p \in Procs |-> NoVersion]
    /\ list = [p \in Procs |-> <<>>]
    /\ idx = [p \in Procs |-> 0]
    /\ called = [p \in Procs |-> <<>>]
    /\ seen = [p \in Procs |-> {}]
    /\ wrote = [p \in Procs |-> FALSE]
    /\ acquired = [p \in Procs |-> FALSE]
    /\ stored = [p \in Procs |-> FALSE]
    /\ queries = [p \in Procs |-> 0]
    /\ log = [p \in Procs |-> {}]
    /\ result = [p \in Procs |-> "none"]

ListenerInit ==
    /\ acceptIn = [ok |-> TRUE, peer |-> 0, opError |-> FALSE, syscallError |-> FALSE, errno |-> "none"]
    /\ acceptRet = [c |-> [peer |-> 0, keepAlive |-> FALSE, period |-> 0],
                    err |-> [opError |-> FALSE, syscallError |-> FALSE, errno |-> "none"]]
    /\ conns = <<>>
    /\ exited = FALSE

(***************************************************************************)
(* Describe / Collect                                                      *)
(***************************************************************************)
\* A scrape goroutine enters c.Describe or c.Collect on exporter e.
Invoke(p, k, e) ==
    /\ pc[p] \in {"idle", "done"}
    /\ pc' = [pc EXCEPT ![p] = "refresh"]
    /\ kind' = [kind EXCEPT ![p] = k]
    /\ self' = [self EXCEPT ![p] = e]
    /\ refreshErr' = [refreshErr EXCEPT ![p] = "nil"]
    /\ parsedVersion' = [parsedVersion EXCEPT ![p] = NoVersion]
    /\ list' = [list EXCEPT ![p] = <<>>]
    /\ idx' = [idx EXCEPT ![p] = 0]
    /\ called' = [called EXCEPT ![p] = <<>>]
    /\ seen' = [seen EXCEPT ![p] = {}]
    /\ wrote' = [wrote EXCEPT ![p] = FALSE]
    /\ acquired' = [acquired EXCEPT ![p] = FALSE]
    /\ stored' = [stored EXCEPT ![p] = FALSE]
    /\ queries' = [queries EXCEPT ![p] = 0]
    /\ log' = [log EXCEPT ![p] = {}]
    /\ result' = [result EXCEPT ![p] = "none"]
    /\ UNCHANGED <<CephVersion, versionLock, mu, rgwMode>>

\* A refresh that queries the cluster only while the shared slot is empty and
\* otherwise goes straight on with the slot as it is.
MonCommandCallUnlessCached(p) ==
    /\ pc[p] = "refresh"
    /\ IF CephVersion = NoVersion
       THEN /\ pc' = [pc EXCEPT ![p] = "mon"]
            /\ queries' = [queries EXCEPT ![p] = @ + 1]
            /\ UNCHANGED <<list, log, idx, seen>>
       ELSE /\ queries' = queries
            /\ IF kind[p] = "Describe"
               THEN /\ pc' = [pc EXCEPT ![p] = "loop"]
                    /\ list' = [list EXCEPT ![p] = getCollectors(rgwMode[self[p]])]
                    /\ log' = [log EXCEPT ![p] = @ \cup getCollectorsLog(rgwMode[self[p]])]
                    /\ idx' = [idx EXCEPT ![p] = 1]
                    /\ seen' = [seen EXCEPT ![p] = {CephVersion}]
               ELSE /\ pc' = [pc EXCEPT ![p] = "mulock"]
                    /\ UNCHANGED <<list, log, idx, seen>>
    /\ UNCHANGED <<CephVersion, versionLock, mu, rgwMode, kind, self, refreshErr,
                   parsedVersion, called, wrote, acquired, stored, result>>

\* setCephVersion: c.conn.MonCommand(c.cephVersionCmd()) is issued and blocks.
MonCommandCall(p) ==
    /\ pc[p] = "refresh"
    /\ pc' = [pc EXCEPT ![p] = "mon"]
    /\ queries' = [queries EXCEPT ![p] = @ + 1]
    /\ UNCHANGED <<CephVersion, versionLock, mu, rgwMode, kind, self, refreshErr,
                   parsedVersion, list, idx, called, seen, wrote, acquired, stored, log, result>>

\* A setCephVersion that assigns CephVersion before checking the parse error.
SlotStoredBeforeErrCheck(res, slot) == IF res.err = "parse" THEN res.v ELSE slot

\* The shared slot after a refresh whose pre-lock part gave res: untouched here,
\* the store happens later under versionLock.
SlotAfterDecode(res, slot) == slot

\* Describe/Collect without the return in the err != nil branch.
AfterRefreshErrorNoReturn(k) == IF k = "Collect" THEN "mulock" ELSE "loop"

\* Where Describe/Collect goes when setCephVersion returned an error.
AfterRefreshError(k) == "done"

\* MonCommand returns r; setCephVersion decodes and parses it. On an error
\* setCephVersion returns it and Describe/Collect logs and returns.
MonCommandReturn(p, r) ==
    LET res == setCephVersionResult(r) IN
    /\ pc[p] = "mon"
    /\ refreshErr' = [refreshErr EXCEPT ![p] = res.err]
    /\ CephVersion' = SlotAfterDecode(res, CephVersion)
    /\ IF res.err # "nil"
       THEN /\ pc' = [pc EXCEPT ![p] = AfterRefreshError(kind[p])]
            /\ log' = [log EXCEPT ![p] = @ \cup {ErrSetVersion}]
            /\ result' = [result EXCEPT ![p] =
                            IF AfterRefreshError(kind[p]) = "done" THEN "refresh_failed" ELSE @]
            /\ UNCHANGED parsedVersion
       ELSE /\ pc' = [pc EXCEPT ![p] = "vlock"]
            /\ parsedVersion' = [parsedVersion EXCEPT ![p] = res.v]
            /\ UNCHANGED <<log, result>>
    /\ UNCHANGED <<versionLock, mu, rgwMode, kind, self, list, idx, called, seen,
                   wrote, acquired, stored, queries>>

\* A setCephVersion that assigns the slot without taking versionLock.
VersionLockNotTaken == TRUE

\* Whether versionLock.Lock() can return.
VersionLockAvailable == versionLock = 0

\* versionLock.Lock()
VersionLock(p) ==
    /\ pc[p] = "vlock"
    /\ VersionLockAvailable
    /\ versionLock' = p
    /\ pc' = [pc EXCEPT ![p] = "vstore"]
    /\ UNCHANGED <<CephVersion, mu, rgwMode, kind, self, refreshErr, parsedVersion,
                   list, idx, called, seen, wrote, acquired, stored, queries, log, result>>

\* CephVersion = parsedVersion
VersionStore(p) ==
    /\ pc[p] = "vstore"
    /\ CephVersion' = parsedVersion[p]
    /\ stored' = [stored EXCEPT ![p] = TRUE]
    /\ seen' = [q \in Procs |-> IF pc[q] \in {"loop", "sub", "subsent", "hung"}
                                THEN seen[q] \cup {parsedVersion[p]}
                                ELSE seen[q]]
    /\ pc' = [pc EXCEPT ![p] = "vunlock"]
    /\ UNCHANGED <<versionLock, mu, rgwMode, kind, self, refreshErr, parsedVersion,
                   list, idx, called, wrote, acquired, queries, log, result>>

\* A Describe that takes c.mu as Collect does.
NeedsCycleLockAlways(k) == TRUE

\* Whether method k locks c.mu before its loop: Collect does, Describe does not.
NeedsCycleLock(k) == k = "Collect"

\* versionLock.Unlock(); return nil. Describe then evaluates c.getCollectors()
\* for its loop; Collect goes on to c.mu.Lock().
VersionUnlock(p) ==
    /\ pc[p] = "vunlock"
    /\ versionLock' = 0
    /\ parsedVersion' = [parsedVersion EXCEPT ![p] = NoVersion]
    /\ IF ~NeedsCycleLock(kind[p])
       THEN /\ pc' = [pc EXCEPT ![p] = "loop"]
            /\ list' = [list EXCEPT ![p] = getCollectors(rgwMode[self[p]])]
            /\ log' = [log EXCEPT ![p] = @ \cup getCollectorsLog(rgwMode[self[p]])]
            /\ idx' = [idx EXCEPT ![p] = 1]
            /\ seen' = [seen EXCEPT ![p] = {CephVersion}]
       ELSE /\ pc' = [pc EXCEPT ![p] = "mulock"]
            /\ UNCHANGED <<list, log, idx, seen>>
    /\ UNCHANGED <<CephVersion, mu, rgwMode, kind, self, refreshErr,
                   called, wrote, acquired, stored, queries, result>>

\* A Collect that does not take c.mu.
MuNotTaken(e) == TRUE

\* Whether c.mu.Lock() can return for exporter e.
MuAvailable(e) == mu[e] = 0

\* Collect: c.mu.Lock(); defer c.mu.Unlock(); then c.getCollectors() for the loop.
MuLock(p) ==
    /\ pc[p] = "mulock"
    /\ MuAvailable(self[p])
    /\ mu' = [mu EXCEPT ![self[p]] = p]
    /\ acquired' = [acquired EXCEPT ![p] = TRUE]
    /\ list' = [list EXCEPT ![p] = getCollectors(rgwMode[self[p]])]
    /\ log' = [log EXCEPT ![p] = @ \cup getCollectorsLog(rgwMode[self[p]])]
    /\ idx' = [idx EXCEPT ![p] = 1]
    /\ seen' = [seen EXCEPT ![p] = {CephVersion}]
    /\ pc' = [pc EXCEPT ![p] = "loop"]
    /\ UNCHANGED <<CephVersion, versionLock, rgwMode, kind, self, refreshErr,
                   parsedVersion, called, wrote, stored, queries, result>>

\* A Collect without the deferred c.mu.Unlock().
NeverUnlocked(p, how) == mu

\* c.mu.Unlock() as a plain last statement of Collect instead of a defer.
UnlockAtEndOnly(p, how) ==
    IF kind[p] = "Collect" /\ how = "return"
    THEN [mu EXCEPT ![self[p]] = 0]
    ELSE mu

\* The deferred c.mu.Unlock() of Collect, run when invocation p leaves the
\* function in the given way ("return" or "panic"); Describe holds no lock.
DeferredUnlock(p, how) ==
    IF kind[p] = "Collect"
    THEN [mu EXCEPT ![self[p]] = 0]
    ELSE mu

\* A loop that stops at the first sub-collector that produced nothing.
AfterSubStopOnError(i, n, len) == IF n = 0 THEN len + 1 ELSE i + 1

\* The range loop's position after the call at position i of len returned,
\* having sent n items: sub-collectors return nothing to the loop, which
\* always goes on to the next element.
AfterSub(i, n, len) == i + 1

\* The positions of an invocation inside a sub-collector call: "sub" while
\* the call has sent nothing on ch yet, "subsent" once it has.
InCall == {"sub", "subsent"}

\* One iteration of the range loop begins: cc.Describe(ch) / cc.Collect(ch)
\* is called. The call blocks the invocation until the sub-collector returns;
\* other goroutines run meanwhile.
CallSub(p) ==
    /\ pc[p] = "loop"
    /\ idx[p] <= Len(list[p])
    /\ pc' = [pc EXCEPT ![p] = "sub"]
    /\ called' = [called EXCEPT ![p] = Append(@, list[p][idx[p]].name)]
    /\ UNCHANGED <<CephVersion, versionLock, mu, rgwMode, kind, self, refreshErr,
                   parsedVersion, list, idx, seen, wrote, acquired, stored, queries,
                   log, result>>

\* The sub-collector being called sends on ch (a descriptor or a sample). Only
\* whether the call, and the invocation, sent anything is recorded, so the
\* later sends of one call change nothing.
SubSend(p) ==
    /\ pc[p] = "sub"
    /\ pc' = [pc EXCEPT ![p] = "subsent"]
    /\ wrote' = [wrote EXCEPT ![p] = TRUE]
    /\ UNCHANGED <<CephVersion, versionLock, mu, rgwMode, kind, self, refreshErr,
                   parsedVersion, list, idx, called, seen, acquired, stored, queries,
                   log, result>>

\* The sub-collector returns, having sent something or (after an internal
\* error it logged) nothing, and the loop goes on.
SubReturn(p) ==
    /\ pc[p] \in InCall
    /\ pc' = [pc EXCEPT ![p] = "loop"]
    /\ idx' = [idx EXCEPT ![p] =
                 AfterSub(@, IF pc[p] = "subsent" THEN 1 ELSE 0, Len(list[p]))]
    /\ UNCHANGED <<CephVersion, versionLock, mu, rgwMode, kind, self, refreshErr,
                   parsedVersion, list, called, seen, wrote, acquired, stored, queries,
                   log, result>>

\* A Collect that holds c.mu only while it builds the list and releases it
\* before calling the sub-collectors.
SubHangLockReleased(p) ==
    /\ pc[p] \in InCall
    /\ kind[p] = "Collect"
    /\ pc' = [pc EXCEPT ![p] = "hung"]
    /\ mu' = [mu EXCEPT ![self[p]] = 0]
    /\ UNCHANGED <<CephVersion, versionLock, rgwMode, kind, self, refreshErr,
                   parsedVersion, list, idx, called, seen, wrote, acquired, stored,
                   queries, log, result>>

\* The cc.Collect(ch) that Collect is in never returns: the sub-collector
\* waits for ever (a fan-out collect in wg.Wait() for a task whose lookup
\* hangs or whose send on ch is never received). Collect stays in the call:
\* no later statement of it runs, the deferred unlock included.
SubHang(p) ==
    /\ pc[p] \in InCall
    /\ kind[p] = "Collect"
    /\ pc' = [pc EXCEPT ![p] = "hung"]
    /\ UNCHANGED <<CephVersion, versionLock, mu, rgwMode, kind, self, refreshErr,
                   parsedVersion, list, idx, called, seen, wrote, acquired, stored,
                   queries, log, result>>

\* The sub-collector being called panics: the panic unwinds out of
\* Describe/Collect, running the deferred unlock. The invocation's locals and
\* the record of its cycle (called, seen, wrote) end with it.
SubPanic(p) ==
    /\ pc[p] \in InCall
    /\ mu' = DeferredUnlock(p, "panic")
    /\ pc' = [pc EXCEPT ![p] = "done"]
    /\ result' = [result EXCEPT ![p] = "panicked"]
    /\ list' = [list EXCEPT ![p] = <<>>]
    /\ idx' = [idx EXCEPT ![p] = 0]
    /\ called' = [called EXCEPT ![p] = <<>>]
    /\ seen' = [seen EXCEPT ![p] = {}]
    /\ wrote' = [wrote EXCEPT ![p] = FALSE]
    /\ UNCHANGED <<CephVersion, versionLock, rgwMode, kind, self, refreshErr,
                   parsedVersion, acquired, stored, queries, log>>

\* The loop is over: the method returns, running the deferred unlock.
Return(p) ==
    /\ pc[p] = "loop"
    /\ idx[p] > Len(list[p])
    /\ mu' = DeferredUnlock(p, "return")
    /\ pc' = [pc EXCEPT ![p] = "done"]
    /\ result' = [result EXCEPT ![p] = "ok"]
    /\ list' = [list EXCEPT ![p] = <<>>]
    /\ idx' = [idx EXCEPT ![p] = 0]
    /\ called' = [called EXCEPT ![p] = <<>>]
    /\ seen' = [seen EXCEPT ![p] = {}]
    /\ wrote' = [wrote EXCEPT ![p] = FALSE]
    /\ UNCHANGED <<CephVersion, versionLock, rgwMode, kind, self, refreshErr,
                   parsedVersion, acquired, stored, queries, log>>

(***************************************************************************)
(* emfileAwareTcpListener.Accept                                           *)
(***************************************************************************)
\* const keepAlive time.Duration = 3 * time.Minute, in seconds
keepAlive == 180

NilErr == [opError |-> FALSE, syscallError |-> FALSE, errno |-> "none"]
NilConn == [peer |-> 0, keepAlive |-> FALSE, period |-> 0]

\* The errors ln.AcceptTCP() returns: *net.OpError wrapping *os.SyscallError
\* wrapping an errno (EMFILE, ENFILE, ECONNABORTED), *net.OpError wrapping a
\* non-syscall error (use of closed network connection), and a bare
\* syscall.EINVAL (listener not initialised).
AcceptErrors ==
    { [opError |-> TRUE, syscallError |-> TRUE, errno |-> "EMFILE"],
      [opError |-> TRUE, syscallError |-> TRUE, errno |-> "ENFILE"],
      [opError |-> TRUE, syscallError |-> TRUE, errno |-> "ECONNABORTED"],
      [opError |-> TRUE, syscallError |-> FALSE, errno |-> "closed"],
      [opError |-> FALSE, syscallError |-> FALSE, errno |-> "EINVAL"] }

\* What ln.AcceptTCP() returns: (tc, nil) for a peer, or (nil, err).
AcceptResults ==
    { [ok |-> TRUE, peer |-> q, opError |-> FALSE, syscallError |-> FALSE, errno |-> "none"] :
        q \in Peers }
    \cup { [ok |-> FALSE, peer |-> 0, opError |-> e.opError,
            syscallError |-> e.syscallError, errno |-> e.errno] : e \in AcceptErrors }

ErrOf(in) == [opError |-> in.opError, syscallError |-> in.syscallError, errno |-> in.errno]

\* The two type assertions and the comparison guarding logger.Fatal.
isEMFILECheckWrongErrno(e) == e.opError /\ e.syscallError /\ e.errno = "ENFILE"

isEMFILE(e) == e.opError /\ e.syscallError /\ e.errno = "EMFILE"

\* tc.SetKeepAlive(true); tc.SetKeepAlivePeriod(keepAlive)
ConfiguredConn(q) == [peer |-> q, keepAlive |-> TRUE, period |-> keepAlive]

\* One call of Accept by the HTTP server, AcceptTCP having returned in.
Accept(in) ==
    /\ ~exited
    /\ Len(conns) < MaxAccepts
    /\ acceptIn' = in
    /\ IF ~in.ok
       THEN IF isEMFILE(ErrOf(in))
            THEN \* logger.Fatal: os.Exit, Accept never returns
                 /\ exited' = TRUE
                 /\ UNCHANGED <<acceptRet, conns>>
            ELSE \* "Default return": the named results (nil, err)
                 /\ acceptRet' = [c |-> NilConn, err |-> ErrOf(in)]
                 /\ UNCHANGED <<exited, conns>>
       ELSE /\ acceptRet' = [c |-> ConfiguredConn(in.peer), err |-> NilErr]
            /\ conns' = Append(conns, ConfiguredConn(in.peer))
            /\ UNCHANGED exited

(***************************************************************************)
(* BucketUsageCollector: data                                              *)
(***************************************************************************)
AllBuckets == <<"A", "B", "C", "D", "E">>
BucketNames == {AllBuckets[i] : i \in 1..NumBuckets}
Tasks == 1..NumBuckets

\* The owner recorded for each bucket in the listing.
Owner(b) ==
    CASE b = "A" -> "alice" [] b = "B" -> "bob" [] b = "C" -> "carol"
      [] b = "D" -> "dave" [] OTHER -> "erin"

\* Errors: nil, the exec error of a command, a json.Unmarshal error.
NilError == [kind |-> "nil", of |-> ""]
ExecError(b) == [kind |-> "exec", of |-> b]
JsonError(b) == [kind |-> "json", of |-> b]

\* Byte slices: nil, the JSON bucket listing, the JSON usage of a bucket.
NilBytes == [kind |-> "nil", of |-> ""]
ListBytes == [kind |-> "list", of |-> ""]
UsageBytes(b) == [kind |-> "usage", of |-> b]

BucketIndex(b) == CHOOSE i \in 1..Len(AllBuckets) : AllBuckets[i] = b

\* The usage the gateway reports for bucket b: one summary of its owner with
\* one put_obj category, numbers that tell the buckets apart.
UsageOf(b) ==
    << [User |-> Owner(b),
        Categories |-> << [Category |-> "put_obj",
                           BytesSent |-> 100 * BucketIndex(b),
                           BytesReceived |-> 50 * BucketIndex(b),
                           Ops |-> 5 * BucketIndex(b),
                           SuccessfulOps |-> 5 * BucketIndex(b)] >>] >>

\* Output that is not JSON at all.
GarbageBytes == [kind |-> "garbage", of |-> ""]

\* The usage JSON of bucket b with a bytes_sent value of the wrong type
\* (a string, or a number that overflows int64).
MistypedBytes(b) == [kind |-> "mistyped", of |-> b]

\* What json.Unmarshal leaves in usage.Summary for MistypedBytes(b): the
\* mistyped field is skipped (BytesSent keeps its zero value) and everything
\* else is decoded.
PartialUsageOf(b) ==
    << [User |-> Owner(b),
        Categories |-> << [Category |-> "put_obj",
                           BytesSent |-> 0,
                           BytesReceived |-> 50 * BucketIndex(b),
                           Ops |-> 5 * BucketIndex(b),
                           SuccessfulOps |-> 5 * BucketIndex(b)] >>] >>

\* showBucketUsage for bucket b: (out, nil) with the usage JSON ("ok"), with
\* output that is not JSON ("garbage") or with JSON holding a value of the
\* wrong type ("mistyped"), or (nil, err) when the command fails ("fail").
showBucketUsage(b, outcome) ==
    IF outcome = "ok" THEN [out |-> UsageBytes(b), err |-> NilError]
    ELSE IF outcome = "garbage" THEN [out |-> GarbageBytes, err |-> NilError]
    ELSE IF outcome = "mistyped" THEN [out |-> MistypedBytes(b), err |-> NilError]
    ELSE [out |-> NilBytes, err |-> ExecError(b)]

\* json.Unmarshal(buf, usage) in the task of bucket b: usage.Summary and the
\* error. A syntax error or an empty input leaves usage empty; a value of the
\* wrong type gives an error and the rest of the usage decoded.
UnmarshalUsage(bytes, b) ==
    IF bytes.kind = "usage" THEN [Summary |-> UsageOf(bytes.of), err |-> NilError]
    ELSE IF bytes.kind = "mistyped"
         THEN [Summary |-> PartialUsageOf(bytes.of), err |-> JsonError(b)]
    ELSE [Summary |-> <<>>, err |-> JsonError(b)]

RECURSIVE Flatten(_)
\* The (summary, category) pairs of a Summary list, in the order of the two loops.
Flatten(summary) ==
    IF summary = <<>> THEN <<>>
    ELSE [i \in 1..Len(summary[1].Categories) |->
             [User |-> summary[1].User, cat |-> summary[1].Categories[i]]]
         \o Flatten(Tail(summary))

Sample(desc, value, bucket, user, category) ==
    [desc |-> desc, value |-> value, bucket |-> bucket, user |-> user, category |-> category]

\* The four ch <- prometheus.MustNewConstMetric(...) of one loop body, in order.
SamplesOf(bucket, pr) ==
    << Sample("bytes_sent", pr.cat.BytesSent, bucket, pr.User, pr.cat.Category),
       Sample("bytes_recived", pr.cat.BytesReceived, bucket, pr.User, pr.cat.Category),
       Sample("ops", pr.cat.Ops, bucket, pr.User, pr.cat.Category),
       Sample("successful_ops", pr.cat.SuccessfulOps, bucket, pr.User, pr.cat.Category) >>

FanInit ==
    /\ cpc = "list"
    /\ stats = <<>>
    /\ next = 0
    /\ buf = NilBytes
    /\ err = NilError
    /\ latestErr = NilError
    /\ wg = 0
    /\ tpc = [t \in Tasks |-> "none"]
    /\ lookup = [t \in Tasks |-> "none"]
    /\ usage = [t \in Tasks |-> <<>>]
    /\ pos = [t \in Tasks |-> 0]
    /\ sent = [t \in Tasks |-> <<>>]
    /\ ret = NilError
    /\ logged = FALSE
    /\ listing = "none"
    /\ lastWriter = 0

(***************************************************************************)
(* BucketUsageCollector.collect: the enumerating goroutine                 *)
(***************************************************************************)
\* A collect that checks the command error only, not the decode error.
ListingAbortsOnExecErrorOnly(outcome) == outcome = "fail"

\* The two "if err != nil { return err }" after listBucketStats and after
\* json.Unmarshal(buf, &stats.Buckets).
ListingAborts(outcome) == outcome # "ok"

\* listBucketStats returns and its output is decoded into stats.Buckets:
\* outcome "ok" with the first m buckets, "fail" (command error) or
\* "garbage" (undecodable output). On an error collect returns it and
\* Collect logs it.
\* (m is also what an undecodable output left in stats.Buckets.)
ListBuckets(outcome, m) ==
    /\ cpc = "list"
    /\ listing' = outcome
    /\ IF ~ListingAborts(outcome)
       THEN /\ buf' = IF outcome = "ok" THEN ListBytes ELSE GarbageBytes
            /\ stats' = SubSeq(AllBuckets, 1, m)
            /\ next' = 1
            /\ cpc' = "spawn"
            /\ UNCHANGED <<err, ret, logged>>
       ELSE /\ buf' = IF outcome = "fail" THEN NilBytes ELSE GarbageBytes
            /\ err' = IF outcome = "fail" THEN ExecError("") ELSE err
            /\ ret' = IF outcome = "fail" THEN ExecError("") ELSE JsonError("")
            /\ logged' = TRUE
            /\ cpc' = "returned"
            /\ UNCHANGED <<stats, next>>
    /\ UNCHANGED <<latestErr, wg, tpc, lookup, usage, pos, sent, lastWriter>>

\* One iteration of the range loop: wg.Add(1); bucket := bt; go func() {...}().
Spawn ==
    /\ cpc = "spawn"
    /\ next <= Len(stats)
    /\ wg' = wg + 1
    /\ tpc' = [tpc EXCEPT ![next] = "call"]
    /\ next' = next + 1
    /\ UNCHANGED <<cpc, stats, buf, err, latestErr, lookup, usage, pos, sent, ret, logged, listing, lastWriter>>

\* A collect without the wg.Wait().
WaitSkipped == TRUE

\* Whether wg.Wait() can return.
WaitDone == wg = 0

\* wg.Wait(); return latestErr. Collect logs a non-nil error and returns.
WaitAndReturn ==
    /\ cpc = "spawn"
    /\ next > Len(stats)
    /\ WaitDone
    /\ ret' = latestErr
    /\ logged' = (latestErr # NilError)
    /\ cpc' = "returned"
    /\ UNCHANGED <<stats, next, buf, err, latestErr, wg, tpc, lookup, usage, pos, sent, listing, lastWriter>>

(***************************************************************************)
(* BucketUsageCollector.collect: the goroutine of one bucket               *)
(* buf and err are the variables of the enclosing collect: every task      *)
(* assigns and reads them without synchronisation, so each access is a     *)
(* step of its own and the tasks' accesses interleave.                     *)
(***************************************************************************)
\* b.showBucketUsage(...) returns; the first half of "buf, err = ...": buf.
TaskCall(t, outcome) ==
    /\ tpc[t] = "call"
    /\ lookup' = [lookup EXCEPT ![t] = outcome]
    /\ buf' = showBucketUsage(stats[t], outcome).out
    /\ tpc' = [tpc EXCEPT ![t] = "werr"]
    /\ UNCHANGED <<cpc, stats, next, err, latestErr, wg, usage, pos, sent, ret, logged, listing, lastWriter>>

\* The second half of "buf, err = ...": err.
TaskWriteErr(t) ==
    /\ tpc[t] = "werr"
    /\ err' = showBucketUsage(stats[t], lookup[t]).err
    /\ tpc' = [tpc EXCEPT ![t] = "check"]
    /\ UNCHANGED <<cpc, stats, next, buf, latestErr, wg, lookup, usage, pos, sent, ret, logged, listing, lastWriter>>

\* if err != nil
TaskCheckErr(t) ==
    /\ tpc[t] = "check"
    /\ tpc' = [tpc EXCEPT ![t] = IF err # NilError THEN "seterr" ELSE "unmarshal"]
    /\ UNCHANGED <<cpc, stats, next, buf, err, latestErr, wg, lookup, usage, pos, sent, ret, logged, listing, lastWriter>>

\* latestErr = err (there is no return: the task goes on to decode)
TaskSetLatestErr(t) ==
    /\ tpc[t] = "seterr"
    /\ latestErr' = err
    /\ lastWriter' = t
    /\ tpc' = [tpc EXCEPT ![t] = "unmarshal"]
    /\ UNCHANGED <<cpc, stats, next, buf, err, wg, lookup, usage, pos, sent, ret, logged, listing>>

\* usage := &BucketUsage{}; if err := json.Unmarshal(buf, usage); err != nil
TaskUnmarshal(t) ==
    LET d == UnmarshalUsage(buf, stats[t]) IN
    /\ tpc[t] = "unmarshal"
    /\ usage' = [usage EXCEPT ![t] = d.Summary]
    /\ pos' = [pos EXCEPT ![t] = 1]
    /\ tpc' = [tpc EXCEPT ![t] = IF d.err # NilError THEN "setjsonerr" ELSE "emit"]
    /\ UNCHANGED <<cpc, stats, next, buf, err, latestErr, wg, lookup, sent, ret, logged, listing, lastWriter>>

\* latestErr = err, with the err of the if statement (the decode error);
\* there is no return: the task goes on to the loops over what was decoded.
TaskSetJsonErr(t) ==
    /\ tpc[t] = "setjsonerr"
    /\ latestErr' = JsonError(stats[t])
    /\ lastWriter' = t
    /\ tpc' = [tpc EXCEPT ![t] = "emit"]
    /\ UNCHANGED <<cpc, stats, next, buf, err, wg, lookup, usage, pos, sent, ret, logged, listing>>

\* The number of sends the loops over a decoded usage make.
Sends(summary) == 4 * Len(Flatten(summary))

\* The i-th send of those loops, labelled bucket.
NthSample(bucket, summary, i) ==
    SamplesOf(bucket, Flatten(summary)[((i - 1) \div 4) + 1])[((i - 1) % 4) + 1]

\* One "ch <- prometheus.MustNewConstMetric(...)": the next sample of the
\* loops is sent on ch, labelled bucket.Bucket. Each send is a step of its
\* own: it can block, and other tasks run between two sends.
TaskEmit(t) ==
    /\ tpc[t] = "emit"
    /\ pos[t] <= Sends(usage[t])
    /\ sent' = [sent EXCEPT ![t] = Append(@, NthSample(stats[t], usage[t], pos[t]))]
    /\ pos' = [pos EXCEPT ![t] = @ + 1]
    /\ UNCHANGED <<cpc, stats, next, buf, err, latestErr, wg, tpc, lookup, usage, ret,
                   logged, listing, lastWriter>>

\* The loops are over: the deferred wg.Done() runs and the goroutine ends.
TaskDone(t) ==
    /\ tpc[t] = "emit"
    /\ pos[t] > Sends(usage[t])
    /\ wg' = wg - 1
    /\ tpc' = [tpc EXCEPT ![t] = "done"]
    /\ UNCHANGED <<cpc, stats, next, buf, err, latestErr, lookup, usage, pos, sent, ret,
                   logged, listing, lastWriter>>

(***************************************************************************)
(* Specifications                                                          *)
(***************************************************************************)
\* The exporter with no scrape in progress and the gateway disabled.
ExporterIdle == ExporterInit /\ rgwMode = [e \in Exporters |-> RGWModeDisabled]

Init == ExporterInit /\ ListenerInit /\ FanInit

Next ==
    \E p \in Procs :
        \/ \E k \in {"Collect", "Describe"}, e \in Exporters :
              Invoke(p, k, e) /\ UNCHANGED <<listenerVars, fanVars>>
        \/ MonCommandCall(p) /\ UNCHANGED <<listenerVars, fanVars>>
        \/ \E r \in Responses : MonCommandReturn(p, r) /\ UNCHANGED <<listenerVars, fanVars>>
        \/ VersionLock(p) /\ UNCHANGED <<listenerVars, fanVars>>
        \/ VersionStore(p) /\ UNCHANGED <<listenerVars, fanVars>>
        \/ VersionUnlock(p) /\ UNCHANGED <<listenerVars, fanVars>>
        \/ MuLock(p) /\ UNCHANGED <<listenerVars, fanVars>>
        \/ CallSub(p) /\ UNCHANGED <<listenerVars, fanVars>>
        \/ SubSend(p) /\ UNCHANGED <<listenerVars, fanVars>>
        \/ SubReturn(p) /\ UNCHANGED <<listenerVars, fanVars>>
        \/ SubHang(p) /\ UNCHANGED <<listenerVars, fanVars>>
        \/ SubPanic(p) /\ UNCHANGED <<listenerVars, fanVars>>
        \/ Return(p) /\ UNCHANGED <<listenerVars, fanVars>>

Spec == Init /\ [][Next]_vars

\* Scrapes in which every connection call and every sub-collector call
\* returns. A goroutine that can take a step takes it (the Go scheduler runs
\* every runnable goroutine), and a goroutine blocked in Lock() gets the
\* mutex once it is released often enough (sync.Mutex hands the lock to a
\* waiter that has waited long: starvation mode). New scrapes need not come.
InitLive == ExporterIdle /\ ListenerInit /\ FanInit

NextLive ==
    \E p \in Procs :
        \/ \E k \in {"Collect", "Describe"}, e \in Exporters :
              Invoke(p, k, e) /\ UNCHANGED <<listenerVars, fanVars>>
        \/ MonCommandCall(p) /\ UNCHANGED <<listenerVars, fanVars>>
        \/ \E r \in Responses : MonCommandReturn(p, r) /\ UNCHANGED <<listenerVars, fanVars>>
        \/ VersionLock(p) /\ UNCHANGED <<listenerVars, fanVars>>
        \/ VersionStore(p) /\ UNCHANGED <<listenerVars, fanVars>>
        \/ VersionUnlock(p) /\ UNCHANGED <<listenerVars, fanVars>>
        \/ MuLock(p) /\ UNCHANGED <<listenerVars, fanVars>>
        \/ CallSub(p) /\ UNCHANGED <<listenerVars, fanVars>>
        \/ SubSend(p) /\ UNCHANGED <<listenerVars, fanVars>>
        \/ SubReturn(p) /\ UNCHANGED <<listenerVars, fanVars>>
        \/ Return(p) /\ UNCHANGED <<listenerVars, fanVars>>

\* The steps of goroutine p that need no lock.
Progress(p) ==
    \/ MonCommandCall(p) /\ UNCHANGED <<listenerVars, fanVars>>
    \/ \E r \in Responses : MonCommandReturn(p, r) /\ UNCHANGED <<listenerVars, fanVars>>
    \/ VersionStore(p) /\ UNCHANGED <<listenerVars, fanVars>>
    \/ VersionUnlock(p) /\ UNCHANGED <<listenerVars, fanVars>>
    \/ CallSub(p) /\ UNCHANGED <<listenerVars, fanVars>>
    \/ SubSend(p) /\ UNCHANGED <<listenerVars, fanVars>>
    \/ SubReturn(p) /\ UNCHANGED <<listenerVars, fanVars>>
    \/ Return(p) /\ UNCHANGED <<listenerVars, fanVars>>

Fairness ==
    \A p \in Procs :
        /\ WF_vars(Progress(p))
        /\ SF_vars(VersionLock(p) /\ UNCHANGED <<listenerVars, fanVars>>)
        /\ SF_vars(MuLock(p) /\ UNCHANGED <<listenerVars, fanVars>>)

SpecLive == InitLive /\ [][NextLive]_vars /\ Fairness

InitListener == ExporterIdle /\ ListenerInit /\ FanInit

NextListener ==
    \E in \in AcceptResults : Accept(in) /\ UNCHANGED <<exporterVars, fanVars>>

SpecListener == InitListener /\ [][NextListener]_vars

InitFanOut == ExporterIdle /\ ListenerInit /\ FanInit

NextFanOut ==
    \/ \E outcome \in {"ok", "fail", "garbage"}, m \in 0..NumBuckets :
          ListBuckets(outcome, m) /\ UNCHANGED <<exporterVars, listenerVars>>
    \/ Spawn /\ UNCHANGED <<exporterVars, listenerVars>>
    \/ WaitAndReturn /\ UNCHANGED <<exporterVars, listenerVars>>
    \/ \E t \in Tasks :
          \/ \E outcome \in {"ok", "fail", "garbage", "mistyped"} :
                TaskCall(t, outcome) /\ UNCHANGED <<exporterVars, listenerVars>>
          \/ TaskWriteErr(t) /\ UNCHANGED <<exporterVars, listenerVars>>
          \/ TaskCheckErr(t) /\ UNCHANGED <<exporterVars, listenerVars>>
          \/ TaskSetLatestErr(t) /\ UNCHANGED <<exporterVars, listenerVars>>
          \/ TaskUnmarshal(t) /\ UNCHANGED <<exporterVars, listenerVars>>
          \/ TaskSetJsonErr(t) /\ UNCHANGED <<exporterVars, listenerVars>>
          \/ TaskEmit(t) /\ UNCHANGED <<exporterVars, listenerVars>>
          \/ TaskDone(t) /\ UNCHANGED <<exporterVars, listenerVars>>

SpecFanOut == InitFanOut /\ [][NextFanOut]_vars

(***************************************************************************)
(* Properties of Describe / Collect (checked under Spec)                   *)
(***************************************************************************)
IsCollect(p) == kind[p] = "Collect" /\ pc[p] \notin {"idle", "done"}
\* The positions from the start of the range loop to the method's end:
\* between two calls, inside a call, inside a call that never returns.
LoopPositions == {"loop", "sub", "subsent", "hung"}
InLoop(p) == kind[p] = "Collect" /\ pc[p] \in LoopPositions

\* From the MonCommand call of the version query until the method returns.
InWindow(p) ==
    kind[p] = "Collect" /\ pc[p] \in {"mon", "vlock", "vstore", "vunlock", "mulock"} \cup LoopPositions

\* C1: for one exporter, at most one Collect invocation at a time is inside
\* the sub-collector iteration (between c.mu.Lock() and the deferred Unlock).
C1_OneCollectInLoop ==
    \A p, q \in Procs :
        (p # q /\ self[p] = self[q]) => ~(InLoop(p) /\ InLoop(q))

\* C1 witness: one Collect is in the loop while another Collect of the same
\* exporter waits at c.mu.Lock().
C1_Witness ==
    \E p, q \in Procs :
        /\ p # q /\ self[p] = self[q]
        /\ InLoop(p) /\ idx[p] > 1
        /\ kind[q] = "Collect" /\ pc[q] = "mulock"

\* C2: concurrent Collect invocations on one exporter execute strictly one at
\* a time over their whole windows: while one is between its version query
\* and its return, no other Collect of that exporter has a call on the
\* connection in flight.
C2_WindowsDoNotOverlap ==
    \A p, q \in Procs :
        (p # q /\ self[p] = self[q] /\ InWindow(p) /\ kind[q] = "Collect")
            => pc[q] # "mon"

\* C3: while a Collect iterates its sub-collectors the shared version is not
\* written by a concurrent cycle: from c.mu.Lock() to the end of the loop
\* CephVersion holds one value, so every sub-collector called in the cycle
\* finds the same version there.
C3_OneVersionPerCycle ==
    \A p \in Procs : InLoop(p) => Cardinality(seen[p]) <= 1

\* C6: a Describe or Collect whose version refresh failed has returned, has
\* called no sub-collector, has sent nothing on ch and has not taken c.mu.
C6_RefreshFailureEmitsNothing ==
    \A p \in Procs :
        refreshErr[p] # "nil" =>
            /\ pc[p] = "done" /\ result[p] = "refresh_failed"
            /\ called[p] = <<>> /\ list[p] = <<>>
            /\ ~wrote[p]
            /\ ~acquired[p]
            /\ \A e \in Exporters : mu[e] # p

\* C6 witness: a Collect returned on a refresh failure while another Collect
\* of the same exporter holds the lock and has sent samples.
C6_Witness ==
    \E p, q \in Procs :
        /\ p # q /\ self[p] = self[q]
        /\ kind[p] = "Collect" /\ refreshErr[p] # "nil" /\ pc[p] = "done"
        /\ InLoop(q) /\ mu[self[p]] = q /\ wrote[q]

\* C7: a version refresh that fails (send, decode or parse) returns an error
\* and leaves CephVersion unchanged.
C7_FailedRefreshKeepsSlot ==
    [][\A p \in Procs :
          (pc[p] = "mon" /\ pc'[p] # "mon" /\ refreshErr'[p] # "nil")
              => (CephVersion' = CephVersion /\ pc'[p] # "vlock")]_vars

\* C7 witness: refreshes failed at parsing and at sending while the slot
\* holds the version of an earlier successful refresh.
C7_Witness ==
    /\ CephVersion # NoVersion
    /\ \E p, q \in Procs : refreshErr[p] = "parse" /\ refreshErr[q] \in {"send", "decode"}

SixStandard ==
    << [name |-> "ClusterUsage", background |-> FALSE],
       [name |-> "PoolUsage", background |-> FALSE],
       [name |-> "PoolInfo", background |-> FALSE],
       [name |-> "ClusterHealth", background |-> FALSE],
       [name |-> "Monitor", background |-> FALSE],
       [name |-> "OSD", background |-> FALSE] >>

\* C8: the active list depends on the gateway mode only: mode 0 gives the six
\* standard sub-collectors, 1 adds a foreground gateway collector, 2 adds a
\* background one, any other value gives the six and a logged warning; the
\* list is produced (the loop is entered) for every mode.
C8_ActiveListByMode ==
    \A p \in Procs :
        pc[p] \in LoopPositions =>
            LET m == rgwMode[self[p]] IN
            /\ m = 0 => list[p] = SixStandard /\ WarnInvalidMode \notin log[p]
            /\ m = 1 => /\ list[p] = SixStandard \o <<[name |-> "RGW", background |-> FALSE]>>
                        /\ WarnInvalidMode \notin log[p]
            /\ m = 2 => /\ list[p] = SixStandard \o <<[name |-> "RGW", background |-> TRUE]>>
                        /\ WarnInvalidMode \notin log[p]
            /\ m \notin {0, 1, 2} => list[p] = SixStandard /\ WarnInvalidMode \in log[p]

\* C8 witness: with mode 99 a Collect went through all six standard
\* sub-collectors.
C8_Witness ==
    \E p \in Procs :
        /\ InLoop(p) /\ idx[p] > Len(list[p]) /\ Len(called[p]) = 6
        /\ rgwMode[self[p]] = 99

\* C9: c.mu is held only by a Collect that is between its Lock and its return;
\* when no Collect of an exporter is in progress its lock is free.
C9_LockHeldOnlyInsideCollect ==
    /\ \A e \in Exporters :
          mu[e] # 0 => (self[mu[e]] = e /\ InLoop(mu[e]))
    /\ \A e \in Exporters :
          (\A p \in Procs : ~(IsCollect(p) /\ self[p] = e)) => mu[e] = 0

\* C9 witness: one Collect unwound out of a sub-collector call, another
\* returned on a failed refresh, and the lock of their exporter is free.
C9_Witness ==
    \E p, q \in Procs :
        /\ p # q /\ self[p] = self[q]
        /\ kind[p] = "Collect" /\ pc[p] = "done" /\ result[p] = "panicked" /\ acquired[p]
        /\ kind[q] = "Collect" /\ pc[q] = "done" /\ result[q] \in {"ok", "refresh_failed"}
        /\ mu[self[p]] = 0

\* A Describe invocation in progress.
IsDescribe(p) == kind[p] = "Describe" /\ pc[p] \notin {"idle", "done"}

\* C18: Describe never acquires or waits on c.mu: a Describe is never at
\* c.mu.Lock() nor the holder of a lock, and each of its steps after the
\* refresh (leaving setCephVersion, calling the next sub-collector's Describe,
\* getting back from it, returning) can be taken whoever holds the lock of
\* its exporter.
C18_DescribeIgnoresCycleLock ==
    \A p \in Procs :
        IsDescribe(p) =>
            /\ pc[p] # "mulock"
            /\ ~acquired[p]
            /\ \A e \in Exporters : mu[e] # p
            /\ pc[p] = "vunlock" => ENABLED VersionUnlock(p)
            /\ (pc[p] = "loop" /\ idx[p] <= Len(list[p])) => ENABLED CallSub(p)
            /\ pc[p] \in InCall => ENABLED SubReturn(p)
            /\ (pc[p] = "loop" /\ idx[p] > Len(list[p])) => ENABLED Return(p)

\* C18 witness: a Collect holds the lock in the middle of its loop and a
\* Describe on the same exporter has called every sub-collector's Describe.
C18_Witness ==
    \E p, q \in Procs :
        /\ self[p] = self[q]
        /\ InLoop(p) /\ mu[self[p]] = p
        /\ called[p] # <<>> /\ idx[p] <= Len(list[p])
        /\ IsDescribe(q) /\ pc[q] = "loop"
        /\ idx[q] > Len(list[q]) /\ Len(called[q]) = Len(list[q])

\* A Collect whose current sub-collector call never returns.
Hung(p) == kind[p] = "Collect" /\ pc[p] = "hung"

\* C19: a Collect whose sub-collector call never completes never returns and
\* keeps c.mu: it stays in the call holding the lock of its exporter, and
\* every other Collect on that exporter is refreshing or blocked at
\* c.mu.Lock() (which cannot return) and has called no sub-collector.
C19_HungCycleBlocksLaterCollects ==
    /\ [](\A p \in Procs :
            Hung(p) =>
                /\ mu[self[p]] = p
                /\ \A q \in Procs \ {p} :
                      (IsCollect(q) /\ self[q] = self[p]) =>
                          /\ pc[q] \in {"refresh", "mon", "vlock", "vstore", "vunlock", "mulock"}
                          /\ called[q] = <<>>
                          /\ ~ENABLED MuLock(q))
    /\ [][\A p \in Procs : Hung(p) => (Hung(p))' /\ self'[p] = self[p]]_vars

\* C19 witness: one Collect hangs in a sub-collector call holding the lock and
\* a Collect invoked on the same exporter has passed its refresh and stands
\* at c.mu.Lock().
C19_Witness ==
    \E p, q \in Procs :
        /\ p # q /\ self[p] = self[q]
        /\ Hung(p) /\ mu[self[p]] = p
        /\ kind[q] = "Collect" /\ pc[q] = "mulock" /\ stored[q]

\* C20: versionLock and c.mu are never held together: the holder of
\* versionLock holds no cycle lock and is not waiting for one, and a goroutine
\* holding or waiting for a cycle lock does not hold versionLock; so neither
\* lock is waited for by the holder of the other. And provided every call
\* returns, every Collect that passed the refresh and stands at c.mu.Lock()
\* eventually acquired the lock and returned.
C20_NoLockCycleAndCollectReturns ==
    /\ [](\A p \in Procs :
            /\ versionLock = p => (pc[p] \in {"vstore", "vunlock"} /\ \A e \in Exporters : mu[e] # p)
            /\ pc[p] = "vlock" => \A e \in Exporters : mu[e] # p
            /\ \A e \in Exporters :
                  mu[e] = p => (pc[p] \in {"loop", "sub", "subsent"} /\ versionLock # p)
            /\ pc[p] = "mulock" => versionLock # p)
    /\ \A p \in Procs :
          (kind[p] = "Collect" /\ pc[p] = "mulock")
              ~> (kind[p] = "Collect" /\ pc[p] = "done" /\ acquired[p] /\ result[p] = "ok")

\* C20 witness: a Collect that passed its refresh waits at c.mu.Lock() while
\* another Collect of the same exporter holds the lock in its loop and a
\* refresh is not in the way (versionLock is free).
C20_Witness ==
    \E p, q \in Procs :
        /\ p # q /\ self[p] = self[q]
        /\ kind[p] = "Collect" /\ pc[p] = "mulock" /\ stored[p]
        /\ InLoop(q) /\ mu[self[q]] = q /\ called[q] # <<>>
        /\ versionLock = 0

\* The versions a successful refresh can produce.
CompleteVersions ==
    {ParseCephVersion(s).v : s \in {x \in VersionStrings : ParseCephVersion(x).err = "nil"}}

\* An invocation between versionLock.Lock() and versionLock.Unlock().
InVersionSection(p) == pc[p] \in {"vstore", "vunlock"}

\* C17: under any interleaving of refreshes the shared slot holds its initial
\* empty value or the complete version parsed by one successful refresh: the
\* refreshes' stores are serialized by versionLock (at most one invocation is
\* between Lock and Unlock, and it is the holder), and the slot changes only
\* by the holder assigning the whole of its parsedVersion (last write wins).
C17_SlotHoldsOneRefresh ==
    /\ [](/\ CephVersion \in {NoVersion} \cup CompleteVersions
          /\ \A p, q \in Procs : (InVersionSection(p) /\ InVersionSection(q)) => p = q
          /\ \A p \in Procs : InVersionSection(p) <=> versionLock = p
          /\ \A p \in Procs : InVersionSection(p) => refreshErr[p] = "nil")
    /\ [][CephVersion' # CephVersion =>
            \E p \in Procs :
                /\ pc[p] = "vstore" /\ versionLock = p
                /\ parsedVersion[p] \in CompleteVersions
                /\ CephVersion' = parsedVersion[p]]_vars

\* C17 witness: the slot holds the version an earlier refresh stored, one
\* refresh holds versionLock about to store a different version, and a
\* concurrent refresh waits for versionLock.
C17_Witness ==
    \E p, q \in Procs :
        /\ p # q
        /\ pc[p] = "vstore" /\ pc[q] = "vlock"
        /\ CephVersion \in CompleteVersions
        /\ parsedVersion[p] # CephVersion

\* C16: every Describe or Collect issues exactly one version query, and it
\* calls a sub-collector only after its own refresh succeeded and assigned the
\* parsed version to the shared slot (under versionLock, since released by
\* this invocation): the slot is never empty while it is in its loop.
C16_RefreshBeforeSubCollectors ==
    \A p \in Procs :
        /\ pc[p] \in {"mon", "vlock", "vstore", "vunlock", "mulock", "done"} \cup LoopPositions
              => queries[p] = 1
        /\ pc[p] \in {"idle", "refresh"} => queries[p] = 0
        /\ (pc[p] \in {"mulock"} \cup LoopPositions \/ called[p] # <<>>) =>
              /\ stored[p]
              /\ refreshErr[p] = "nil"
              /\ versionLock # p
              /\ NoVersion \notin seen[p]
        /\ stored[p] <=> (pc[p] \in {"vunlock", "mulock"} \cup LoopPositions
                             \/ (pc[p] = "done" /\ result[p] # "refresh_failed"))

\* C16 witness: a Describe and a Collect, each after its one query, are both
\* inside a sub-collector call.
C16_Witness ==
    \E p, q \in Procs :
        /\ kind[p] = "Describe" /\ pc[p] \in InCall /\ queries[p] = 1
        /\ kind[q] = "Collect" /\ pc[q] \in InCall /\ queries[q] = 1

\* The names of the active sub-collectors in list order, for gateway mode m.
ActiveOrder(m) ==
    <<"ClusterUsage", "PoolUsage", "PoolInfo", "ClusterHealth", "Monitor", "OSD">>
        \o (IF m \in {RGWModeForeground, RGWModeBackground} THEN <<"RGW">> ELSE <<>>)

\* C15: within one Collect the sub-collectors are called one after another in
\* the fixed list order (cluster usage, pool usage, pool info, cluster health,
\* monitor, OSD, then the gateway collector when active), each exactly once:
\* the calls made so far are always a prefix of that order; between two calls
\* it is the prefix before the loop position, inside a call the prefix up to
\* it (the next call starts only after the return moved the position on by
\* one, whether or not the call produced anything); and Collect returns only
\* when the whole list has been called.
C15_FixedOrderAllCalled ==
    /\ [](\A p \in Procs :
            InLoop(p) =>
                LET order == ActiveOrder(rgwMode[self[p]]) IN
                IF pc[p] = "loop"
                THEN /\ idx[p] \in 1..(Len(order) + 1)
                     /\ called[p] = SubSeq(order, 1, idx[p] - 1)
                ELSE /\ idx[p] \in 1..Len(order)
                     /\ called[p] = SubSeq(order, 1, idx[p]))
    /\ [][\A p \in Procs :
            (kind[p] = "Collect" /\ pc[p] = "loop" /\ pc'[p] = "done" /\ result'[p] = "ok")
                => called[p] = ActiveOrder(rgwMode[self[p]])]_vars

\* C15 witness: a Collect with the gateway collector active called all seven
\* sub-collectors although none of them produced a sample.
C15_Witness ==
    \E p \in Procs :
        /\ kind[p] = "Collect" /\ pc[p] = "loop"
        /\ rgwMode[self[p]] = RGWModeForeground
        /\ Len(called[p]) = 7 /\ called[p][7] = "RGW"
        /\ ~wrote[p]

(***************************************************************************)
(* Properties of the listener (checked under SpecListener)                 *)
(***************************************************************************)
\* C10: on each accept, an EMFILE accept error terminates the process; any
\* other accept error is returned unchanged with no connection and no
\* termination; a success returns the connection with keep-alive on and the
\* 3-minute period, and never terminates.
C10_AcceptOutcome ==
    /\ exited <=> (~acceptIn.ok /\ acceptIn.errno = "EMFILE")
    /\ (~acceptIn.ok /\ acceptIn.errno # "EMFILE") =>
          /\ acceptRet.err = [opError |-> acceptIn.opError,
                              syscallError |-> acceptIn.syscallError,
                              errno |-> acceptIn.errno]
          /\ acceptRet.c = NilConn
    /\ (acceptIn.ok /\ acceptIn.peer # 0) =>
          /\ acceptRet.c = [peer |-> acceptIn.peer, keepAlive |-> TRUE, period |-> 3 * 60]
          /\ acceptRet.err = NilErr
    /\ \A i \in 1..Len(conns) : conns[i].keepAlive /\ conns[i].period = 3 * 60

\* C10 witness: after accepted connections and a returned non-EMFILE error,
\* an EMFILE error terminated the process.
C10_Witness ==
    /\ exited
    /\ Len(conns) >= 2
    /\ acceptRet.err.errno \in {"ENFILE", "ECONNABORTED", "closed", "EINVAL"}

(***************************************************************************)
(* Properties of the bucket-usage fan-out (checked under SpecFanOut)       *)
(***************************************************************************)
Launched == 1..Len(stats)

\* The tasks whose usage lookup failed (command error or output that does
\* not decode without error).
Failed == {t \in Launched : lookup[t] \in {"fail", "garbage", "mistyped"}}
Succeeded == {t \in Launched : lookup[t] = "ok"}

\* Everything sent on ch so far.
OnChannel == UNION {{sent[t][i] : i \in 1..Len(sent[t])} : t \in Tasks}

RECURSIVE SumOver(_, _)
SumOver(f, S) ==
    IF S = {} THEN 0
    ELSE LET x == CHOOSE y \in S : TRUE IN f[x] + SumOver(f, S \ {x})

\* The samples the usage of bucket b calls for.
FullSamples(b) ==
    UNION {{SamplesOf(b, Flatten(UsageOf(b))[i])[k] : k \in 1..4} :
             i \in 1..Len(Flatten(UsageOf(b)))}

\* The samples decoded from bucket b's own response when one of its values
\* has the wrong type.
PartialSamples(b) ==
    UNION {{SamplesOf(b, Flatten(PartialUsageOf(b))[i])[k] : k \in 1..4} :
             i \in 1..Len(Flatten(PartialUsageOf(b)))}

\* C4: with M enumerated buckets of which K > 0 have a failing lookup, when
\* collect returns every succeeding bucket's full set of samples is on ch
\* and the returned error is non-nil.
C4_PartialResultsAndError ==
    (cpc = "returned" /\ Failed # {}) =>
        /\ \A t \in Succeeded : FullSamples(stats[t]) \subseteq OnChannel
        /\ ret # NilError

\* C5: a bucket whose lookup failed contributes no samples: when collect
\* returns no sample on ch carries a failed bucket's name, and the number of
\* samples is 4 per (summary, category) pair of the succeeding buckets.
C5_NoSamplesOfFailed ==
    cpc = "returned" =>
        /\ \A t \in Failed : \A x \in OnChannel : x.bucket # stats[t]
        /\ SumOver([t \in Tasks |-> Len(sent[t])], Tasks)
             = SumOver([t \in Tasks |-> 4 * Len(Flatten(UsageOf(AllBuckets[t])))], Succeeded)

\* C11: every sample a task sent carries its own bucket's name and values
\* decoded from the response to its own bucket's lookup (all of them, or,
\* when one value of that response has the wrong type, the rest with that
\* value zero): no task emits what another bucket's lookup returned.
C11_OwnValuesOnly ==
    \A t \in Tasks : \A i \in 1..Len(sent[t]) :
        /\ t \in Launched
        /\ sent[t][i] \in FullSamples(stats[t]) \cup PartialSamples(stats[t])

\* C12: collect launches exactly one task per enumerated bucket (the
\* WaitGroup counts the running ones) and returns only after every launched
\* task has completed; nothing is sent on ch after collect has returned.
C12_JoinBeforeReturn ==
    /\ [](/\ wg = Cardinality({t \in Tasks : tpc[t] \notin {"none", "done"}})
          /\ \A t \in Tasks : (tpc[t] # "none") <=> (cpc # "list" /\ t < next)
          /\ cpc = "returned" =>
                /\ listing = "ok" => next = Len(stats) + 1
                /\ \A t \in Tasks : tpc[t] = (IF t \in Launched THEN "done" ELSE "none"))
    /\ [][cpc = "returned" => sent' = sent]_vars

\* C12 witness: collect returned after all NumBuckets tasks completed, some
\* having sent samples.
C12_Witness ==
    /\ cpc = "returned"
    /\ Len(stats) = NumBuckets
    /\ \A t \in Tasks : tpc[t] = "done"
    /\ \E t \in Tasks : sent[t] # <<>>

\* C13: when several tasks fail in one pass the error collect returns is the
\* one recorded by the failing task whose assignment to latestErr came last:
\* never nil, and an error of a task that failed.
C13_LastFailureReported ==
    (cpc = "returned" /\ listing = "ok" /\ Cardinality(Failed) >= 2) =>
        /\ ret # NilError
        /\ lastWriter \in Failed
        /\ ret \in {ExecError(stats[lastWriter]), JsonError(stats[lastWriter])}

\* C14: if the enumerate step fails (command error or undecodable output)
\* collect returns that error, having launched no task and sent no sample.
C14_EnumerateFailureAborts ==
    listing \in {"fail", "garbage"} =>
        /\ cpc = "returned"
        /\ ret = (IF listing = "fail" THEN ExecError("") ELSE JsonError(""))
        /\ ret # NilError
        /\ wg = 0
        /\ \A t \in Tasks : tpc[t] = "none" /\ sent[t] = <<>> /\ lookup[t] = "none"

\* C14 witness: the listing output did not decode and collect has returned.
C14_Witness ==
    listing = "garbage" /\ cpc = "returned" /\ logged

====
